---- MODULE Spec2Model ----
(***************************************************************************)
(* AlloyDBAdmin (src/asynco/alloy_admin.py): a sequential async wrapper    *)
(* over a blocking client.  Callers of execute_sql_async put (sql, future) *)
(* pairs on a bounded asyncio.Queue; one background task, _worker, takes   *)
(* them one at a time, runs client.execute_sql in a thread and resolves    *)
(* the future.  _ensure_started creates the worker lazily under            *)
(* _init_lock; shutdown() enqueues the poison pill (None, None), awaits    *)
(* the worker task and clears _started.                                    *)
(*                                                                         *)
(* One action is one run of a coroutine from one suspension to the next.   *)
(* A coroutine is suspended only where asyncio suspends it:                *)
(*   - Queue.put on a full queue, Queue.get on an empty one;               *)
(*   - awaiting a task or future that is not done;                         *)
(*   - asyncio.to_thread, until the thread has run the blocking call;      *)
(*   - wait_for, which before Python 3.12 runs the put in a task of its    *)
(*     own (one loop iteration later) and from 3.12 on runs it inline: the *)
(*     put is a step of its own here, which covers both;                   *)
(*   - `async with _init_lock`: taken as a suspension point, so that every *)
(*     interleaving of the fast check, the acquisition and the locked      *)
(*     section is explored in Spec.  asyncio itself does not suspend on a  *)
(*     free lock: SpecOverlap keeps to that, and to the inline put.        *)
(* The client is FakeAlloyDBClient (src/asynco/sync_to_async.py).          *)
(***************************************************************************)
EXTENDS Naturals, Sequences, FiniteSets, TLC

\* ------------------------------------------------------------------ bounds
\* Spec: any calls on one instance
NumCallers == 3      \* execute_sql_async calls made on the instance
NumShutdowns == 2    \* shutdown() calls made on the instance
QueueSize == 2       \* queue_size given to the constructor
\* SpecOverlap: two overlapping shutdown() calls among more submissions
OverlapCallers == 5
OverlapQueueSize == 3
\* SpecDirect: execute_sql calls beside the queued traffic
NumDirect == 2         \* execute_sql calls made on the instance
DirectCallers == 2     \* execute_sql_async calls made on the instance
DirectQueueSize == 1
PayloadCallers == 2
PayloadQueueSize == 1

\* -------------------------------------------------- the program's constants
\* Times are counted in ticks of 0.2 s.
SlowDelay == 40             \* "SLOW": time.sleep(8.0)
FastDelay == 1              \* "FAST": time.sleep(0.2)
DefaultDelayMin == 5        \* otherwise random.uniform(1, 3)
DefaultDelayMax == 15
DefaultEnqueueTimeout == 25 \* enqueue_timeout: float = 5.0
\* test_queue_backpressure: AlloyDBAdmin(FakeAlloyDBClient(), queue_size=2, enqueue_timeout=1.0)
\* and five run_query calls
TestQueueSize == 2
TestEnqueueTimeout == 5
TestCallers == 5

Max(a, b) == IF a >= b THEN a ELSE b
Callers == 1..Max(NumCallers, Max(OverlapCallers, TestCallers))
Shutdowns == 1..NumShutdowns
Directs == 1..NumDirect
\* a worker is created by a caller inside _ensure_started: at most one each
Workers == Callers

\* Python's None, where a task, a lock holder or a future is expected (these are
\* named by positive numbers)
NoRef == 0

\* Python's None, where an SQL string is expected: no string of words
None == <<"<None>">>

\* An SQL string, as the words FakeAlloyDBClient looks for in it.
SlowSql == <<"SLOW", "SELECT">>
FastSql == <<"FAST", "SELECT">>
FailSql == <<"FAIL", "SELECT">>
Payloads == {FastSql, FailSql, SlowSql}
\* the empty string: no word at all
EmptySql == <<>>

\* the poison pill of shutdown()
Sentinel == <<None, NoRef>>

VARIABLES
    queue,        \* self._queue: sequence of <<sql, future>>; a future is named by its caller
    maxsize,      \* self._queue.maxsize
    started,      \* self._started
    workerTask,   \* self._worker_task: a worker id, or None
    initLock,     \* self._init_lock: its holder, or None
    sql,          \* sql[c]: the argument of call c
    pc,           \* pc[c]: where call c of execute_sql_async stands
    fut,          \* fut[c]: the future of call c: <<"none">>, <<"pending">>, <<"result", v>>, <<"exception", e>>
    ret,          \* ret[c]: what call c returned or raised to its caller, <<"none">> before
    wpc,          \* wpc[w]: where worker task w stands: "none", "get", "exec", "exited"
    wcur,         \* wcur[w]: the <<sql, future>> worker w is executing, or <<>>
    spc,          \* spc[s]: where call s of shutdown() stands
    sjoin,        \* sjoin[s]: the task shutdown call s awaits, or None
    enqueueTimeout, \* self._enqueue_timeout, in ticks
    waited,       \* waited[c]: ticks call c has been suspended in put
    elapsed,      \* elapsed[w]: ticks the blocking call of worker w has run
    enqLog,       \* history: every item put on the queue, in order: <<"req", c>> or <<"stop", s>>
    startLog,     \* history: the calls whose execution the workers started, in order
    late,         \* history: late[c] iff call c began after a shutdown() of a started instance returned
    dsql,         \* dsql[d]: the argument of call d of execute_sql
    dpc,          \* dpc[d]: where call d of execute_sql stands: "unused", "idle", "exec", "returned", "raised"
    dret          \* dret[d]: what call d of execute_sql returned or raised, <<"none">> before

vars == <<queue, maxsize, started, workerTask, initLock, sql, pc, fut, ret,
          wpc, wcur, spc, sjoin, enqueueTimeout, waited, elapsed, enqLog, startLog, late,
          dsql, dpc, dret>>

\* what no step of the program changes
config == <<maxsize, enqueueTimeout, sql, dsql>>

\* the calls of execute_sql, which the queued path never touches
direct == <<dpc, dret>>

\* ------------------------------------------------------------ the client
\* `"FAIL" in sql`
Has(word, s) == \E i \in 1..Len(s) : s[i] = word

\* FakeAlloyDBClient.execute_sql: what the call returns or raises
ClientExecute(s) ==
    IF Has("FAIL", s)
    THEN <<"exception", <<"RuntimeError", "Simulated DB error for:", s>>>>
    ELSE <<"result", <<"RESULT", s>>>>

\* FakeAlloyDBClient.execute_sql: how long the call may sleep, in ticks
Delays(s) ==
    IF Has("SLOW", s) THEN SlowDelay..SlowDelay
    ELSE IF Has("FAST", s) THEN FastDelay..FastDelay
    ELSE DefaultDelayMin..DefaultDelayMax

\* ------------------------------------------------------------- helpers
\* (mutant of Full: the queue takes one item more than its capacity)
FullOffByOne(q) == Len(q) > maxsize

\* asyncio.Queue.full()
Full(q) == Len(q) >= maxsize

\* the task a create_task call makes: the first worker id not in use
FreshWorker ==
    CHOOSE w \in Workers : wpc[w] = "none" /\ \A v \in Workers : wpc[v] = "none" => w <= v

\* Task.done() of self._worker_task
TaskDone(w) == w # NoRef /\ wpc[w] = "exited"

\* a shutdown() of a started instance has returned
SomeShutdownReturned == \E s \in Shutdowns : spc[s] = "returned"

\* ---------------------------------------------------------------- Init
\* AlloyDBAdmin.__init__, before any call: the first `calls` execute_sql_async calls
\* and the first `stops` shutdown() calls will be made
InitAdmin(calls, stops) ==
    /\ queue = <<>>
    /\ started = FALSE
    /\ workerTask = NoRef
    /\ initLock = NoRef
    /\ pc = [c \in Callers |-> IF c <= calls THEN "idle" ELSE "unused"]
    /\ fut = [c \in Callers |-> <<"none">>]
    /\ ret = [c \in Callers |-> <<"none">>]
    /\ wpc = [w \in Workers |-> "none"]
    /\ wcur = [w \in Workers |-> <<>>]
    /\ spc = [s \in Shutdowns |-> IF s <= stops THEN "idle" ELSE "unused"]
    /\ sjoin = [s \in Shutdowns |-> NoRef]
    /\ waited = [c \in Callers |-> 0]
    /\ elapsed = [w \in Workers |-> 0]
    /\ enqLog = <<>>
    /\ startLog = <<>>
    /\ late = [c \in Callers |-> FALSE]
    /\ dret = [d \in Directs |-> <<"none">>]

\* the arguments of the first `calls` calls, any of `payloads` each
SqlChoices(calls, payloads) ==
    {f \in [Callers -> payloads] : \A c \in Callers : c > calls => f[c] = f[1]}

\* no call of execute_sql is made
NoDirect ==
    /\ dpc = [d \in Directs |-> "unused"]
    /\ dsql = [d \in Directs |-> FastSql]

Init ==
    /\ InitAdmin(NumCallers, NumShutdowns)
    /\ NoDirect
    /\ maxsize = QueueSize
    /\ enqueueTimeout = DefaultEnqueueTimeout
    /\ sql \in SqlChoices(NumCallers, {FastSql, FailSql})

\* ------------------------------------------------- execute_sql_async
\* Call c is made (the calls are numbered in the order they are made).
\* (mutant of EnsureStartedFast: no fast path, every caller goes for the lock)
EnsureStartedAlwaysLocks(c) ==
    /\ pc[c] = "idle"
    /\ \A d \in Callers : d < c => pc[d] # "idle"
    /\ late' = [late EXCEPT ![c] = SomeShutdownReturned]
    /\ pc' = [pc EXCEPT ![c] = "lock"]
    /\ UNCHANGED <<config, direct, queue, started, workerTask, initLock, fut, ret,
                   wpc, wcur, spc, sjoin, waited, elapsed, enqLog, startLog>>

\* _ensure_started, the fast path: `if self._started: return`; else go for the lock.
\* On return execute_sql_async creates the future.
EnsureStartedFast(c) ==
    /\ pc[c] = "idle"
    /\ \A d \in Callers : d < c => pc[d] # "idle"
    /\ late' = [late EXCEPT ![c] = SomeShutdownReturned]
    /\ IF started
       THEN /\ pc' = [pc EXCEPT ![c] = "put"]
            /\ fut' = [fut EXCEPT ![c] = <<"pending">>]
       ELSE /\ pc' = [pc EXCEPT ![c] = "lock"]
            /\ fut' = fut
    /\ UNCHANGED <<config, direct, queue, started, workerTask, initLock, ret,
                   wpc, wcur, spc, sjoin, waited, elapsed, enqLog, startLog>>

\* `async with self._init_lock`: acquire
AcquireInitLock(c) ==
    /\ pc[c] = "lock"
    /\ initLock = NoRef
    /\ initLock' = c
    /\ pc' = [pc EXCEPT ![c] = "locked"]
    /\ UNCHANGED <<config, direct, queue, started, workerTask, fut, ret,
                   wpc, wcur, spc, sjoin, waited, elapsed, enqLog, startLog, late>>

\* (mutant of EnsureStartedLocked: no re-check of the flag inside the lock)
EnsureStartedNoRecheck(c) ==
    /\ pc[c] = "locked"
    /\ initLock = c
    /\ wpc' = [wpc EXCEPT ![FreshWorker] = "get"]
    /\ workerTask' = FreshWorker
    /\ started' = TRUE
    /\ initLock' = NoRef
    /\ pc' = [pc EXCEPT ![c] = "put"]
    /\ fut' = [fut EXCEPT ![c] = <<"pending">>]
    /\ UNCHANGED <<config, direct, queue, ret, wcur, spc, sjoin, waited, elapsed,
                   enqLog, startLog, late>>

\* inside the lock: re-check, create the worker task, set the flag; release.
\* Then execute_sql_async creates the future.
EnsureStartedLocked(c) ==
    /\ pc[c] = "locked"
    /\ initLock = c
    /\ IF ~started
       THEN /\ wpc' = [wpc EXCEPT ![FreshWorker] = "get"]
            /\ workerTask' = FreshWorker
            /\ started' = TRUE
       ELSE UNCHANGED <<wpc, workerTask, started>>
    /\ initLock' = NoRef
    /\ pc' = [pc EXCEPT ![c] = "put"]
    /\ fut' = [fut EXCEPT ![c] = <<"pending">>]
    /\ UNCHANGED <<config, direct, queue, ret, wcur, spc, sjoin, waited, elapsed,
                   enqLog, startLog, late>>

\* (mutant of PutRequest: a request whose sql is already waiting on the queue is
\* merged with that entry)
PutRequestMerged(c) ==
    /\ queue' = IF \E i \in 1..Len(queue) : queue[i][1] = sql[c]
                THEN queue
                ELSE Append(queue, <<sql[c], c>>)
    /\ enqLog' = Append(enqLog, <<"req", c>>)
    /\ pc' = [pc EXCEPT ![c] = "future"]

\* Queue.put_nowait((sql, future)) by call c
PutRequest(c) ==
    /\ queue' = Append(queue, <<sql[c], c>>)
    /\ enqLog' = Append(enqLog, <<"req", c>>)
    /\ pc' = [pc EXCEPT ![c] = "future"]

\* self._queue.put((sql, future)) under wait_for: put at once when there is room,
\* else suspend until a slot is free or the timeout fires
EnqueuePut(c) ==
    /\ pc[c] = "put"
    /\ IF ~Full(queue)
       THEN PutRequest(c)
       ELSE /\ pc' = [pc EXCEPT ![c] = "put_wait"]
            /\ UNCHANGED <<queue, enqLog>>
    /\ UNCHANGED <<config, direct, started, workerTask, initLock, fut, ret,
                   wpc, wcur, spc, sjoin, waited, elapsed, startLog, late>>

\* a suspended put resumes once a slot is free
EnqueueResume(c) ==
    /\ pc[c] = "put_wait"
    /\ ~Full(queue)
    /\ PutRequest(c)
    /\ waited' = [waited EXCEPT ![c] = 0]
    /\ UNCHANGED <<config, direct, started, workerTask, initLock, fut, ret,
                   wpc, wcur, spc, sjoin, elapsed, startLog, late>>

\* (mutant of EnqueueTimeout: the caller sets the error on its own future)
EnqueueTimeoutSetsFuture(c) ==
    /\ pc[c] = "put_wait"
    /\ pc' = [pc EXCEPT ![c] = "raised"]
    /\ ret' = [ret EXCEPT ![c] = <<"exception", <<"QueueFullError">>>>]
    /\ fut' = [fut EXCEPT ![c] = <<"exception", <<"QueueFullError">>>>]
    /\ waited' = [waited EXCEPT ![c] = 0]
    /\ UNCHANGED <<config, direct, queue, started, workerTask, initLock,
                   wpc, wcur, spc, sjoin, elapsed, enqLog, startLog, late>>

\* (mutant of EnqueueTimeout: the item goes on the queue although the call fails)
EnqueueTimeoutPartial(c) ==
    /\ pc[c] = "put_wait"
    /\ pc' = [pc EXCEPT ![c] = "raised"]
    /\ ret' = [ret EXCEPT ![c] = <<"exception", <<"QueueFullError">>>>]
    /\ waited' = [waited EXCEPT ![c] = 0]
    /\ queue' = Append(queue, <<sql[c], c>>)
    /\ UNCHANGED <<config, direct, started, workerTask, initLock, fut,
                   wpc, wcur, spc, sjoin, elapsed, enqLog, startLog, late>>

\* asyncio.TimeoutError while the put is suspended: raise QueueFullError
EnqueueTimeout(c) ==
    /\ pc[c] = "put_wait"
    /\ pc' = [pc EXCEPT ![c] = "raised"]
    /\ ret' = [ret EXCEPT ![c] = <<"exception", <<"QueueFullError">>>>]
    /\ waited' = [waited EXCEPT ![c] = 0]
    /\ UNCHANGED <<config, direct, queue, started, workerTask, initLock, fut,
                   wpc, wcur, spc, sjoin, elapsed, enqLog, startLog, late>>

\* `return await future`
AwaitFuture(c) ==
    /\ pc[c] = "future"
    /\ fut[c][1] \in {"result", "exception"}
    /\ pc' = [pc EXCEPT ![c] = IF fut[c][1] = "result" THEN "returned" ELSE "raised"]
    /\ ret' = [ret EXCEPT ![c] = fut[c]]
    /\ UNCHANGED <<config, direct, queue, started, workerTask, initLock, fut,
                   wpc, wcur, spc, sjoin, waited, elapsed, enqLog, startLog, late>>

\* ------------------------------------------------------------ _worker
\* (mutant of WorkerTake: the worker takes the newest item, not the oldest)
WorkerTakeLast(w) ==
    LET item == queue[Len(queue)] IN
    /\ queue' = SubSeq(queue, 1, Len(queue) - 1)
    /\ IF item[1] = None
       THEN /\ wpc' = [wpc EXCEPT ![w] = "exited"]
            /\ wcur' = [wcur EXCEPT ![w] = <<>>]
            /\ startLog' = startLog
       ELSE /\ wpc' = [wpc EXCEPT ![w] = "exec"]
            /\ wcur' = [wcur EXCEPT ![w] = item]
            /\ startLog' = Append(startLog, item[2])

\* `sql, future = await self._queue.get()` with an item at hand, then either the
\* break on the poison pill or the start of asyncio.to_thread(client.execute_sql, sql)
WorkerTake(w) ==
    LET item == Head(queue) IN
    /\ queue' = Tail(queue)
    /\ IF item[1] = None
       THEN /\ wpc' = [wpc EXCEPT ![w] = "exited"]
            /\ wcur' = [wcur EXCEPT ![w] = <<>>]
            /\ startLog' = startLog
       ELSE /\ wpc' = [wpc EXCEPT ![w] = "exec"]
            /\ wcur' = [wcur EXCEPT ![w] = item]
            /\ startLog' = Append(startLog, item[2])

\* the worker, suspended in get() (or not yet run), resumes with an item
WorkerGet(w) ==
    /\ wpc[w] = "get"
    /\ queue # <<>>
    /\ WorkerTake(w)
    /\ UNCHANGED <<config, direct, started, workerTask, initLock, pc, fut, ret,
                   spc, sjoin, waited, elapsed, enqLog, late>>

\* (mutant of WorkerResolve: the outcome goes to the oldest pending future)
WorkerResolveCrossed(w) ==
    /\ wpc[w] = "exec"
    /\ LET pend == {c \in Callers : fut[c][1] = "pending"}
           f == IF pend = {} THEN wcur[w][2]
                ELSE CHOOSE c \in pend : \A d \in pend : c <= d
           outcome == ClientExecute(wcur[w][1])
       IN fut' = IF fut[f][1] = "pending" THEN [fut EXCEPT ![f] = outcome] ELSE fut
    /\ IF queue # <<>>
       THEN WorkerTake(w)
       ELSE /\ wpc' = [wpc EXCEPT ![w] = "get"]
            /\ wcur' = [wcur EXCEPT ![w] = <<>>]
            /\ UNCHANGED <<queue, startLog>>
    /\ elapsed' = [elapsed EXCEPT ![w] = 0]
    /\ UNCHANGED <<config, direct, started, workerTask, initLock, pc, ret,
                   spc, sjoin, waited, enqLog, late>>

\* (mutant of WorkerResolve: an exception of the client ends the loop)
WorkerResolveExitOnError(w) ==
    /\ wpc[w] = "exec"
    /\ LET f == wcur[w][2]
           outcome == ClientExecute(wcur[w][1])
       IN fut' = IF fut[f][1] = "pending" THEN [fut EXCEPT ![f] = outcome] ELSE fut
    /\ IF ClientExecute(wcur[w][1])[1] = "exception"
       THEN /\ wpc' = [wpc EXCEPT ![w] = "exited"]
            /\ wcur' = [wcur EXCEPT ![w] = <<>>]
            /\ UNCHANGED <<queue, startLog>>
       ELSE IF queue # <<>>
       THEN WorkerTake(w)
       ELSE /\ wpc' = [wpc EXCEPT ![w] = "get"]
            /\ wcur' = [wcur EXCEPT ![w] = <<>>]
            /\ UNCHANGED <<queue, startLog>>
    /\ elapsed' = [elapsed EXCEPT ![w] = 0]
    /\ UNCHANGED <<config, direct, started, workerTask, initLock, pc, ret,
                   spc, sjoin, waited, enqLog, late>>

\* the blocking call has returned or raised: resolve the future unless it is done,
\* and go round the loop: take the next item, or suspend in get()
WorkerResolve(w) ==
    /\ wpc[w] = "exec"
    /\ LET f == wcur[w][2]
           outcome == ClientExecute(wcur[w][1])
       IN fut' = IF fut[f][1] = "pending" THEN [fut EXCEPT ![f] = outcome] ELSE fut
    /\ IF queue # <<>>
       THEN WorkerTake(w)
       ELSE /\ wpc' = [wpc EXCEPT ![w] = "get"]
            /\ wcur' = [wcur EXCEPT ![w] = <<>>]
            /\ UNCHANGED <<queue, startLog>>
    /\ elapsed' = [elapsed EXCEPT ![w] = 0]
    /\ UNCHANGED <<config, direct, started, workerTask, initLock, pc, ret,
                   spc, sjoin, waited, enqLog, late>>

\* ----------------------------------------------------------- shutdown
\* the poison pill goes on the queue; then `await self._worker_task` and
\* `self._started = False`.  Awaiting a task that is done does not suspend.
PutSentinel(s) ==
    /\ queue' = Append(queue, Sentinel)
    /\ enqLog' = Append(enqLog, <<"stop", s>>)
    /\ IF TaskDone(workerTask)
       THEN /\ started' = FALSE
            /\ spc' = [spc EXCEPT ![s] = "returned"]
            /\ sjoin' = sjoin
       ELSE /\ started' = started
            /\ spc' = [spc EXCEPT ![s] = "join"]
            /\ sjoin' = [sjoin EXCEPT ![s] = workerTask]

\* (mutant of Shutdown: no test of the flag, the poison pill is always put)
ShutdownUnconditional(s) ==
    /\ spc[s] = "idle"
    /\ \A r \in Shutdowns : r < s => spc[r] # "idle"
    /\ IF Full(queue)
       THEN /\ spc' = [spc EXCEPT ![s] = "put_wait"]
            /\ UNCHANGED <<queue, enqLog, started, sjoin>>
       ELSE PutSentinel(s)
    /\ UNCHANGED <<config, direct, workerTask, initLock, pc, fut, ret,
                   wpc, wcur, waited, elapsed, startLog, late>>

\* (mutant of Shutdown: a shutdown() of a never-started instance starts the worker)
ShutdownStartsWorker(s) ==
    /\ spc[s] = "idle"
    /\ \A r \in Shutdowns : r < s => spc[r] # "idle"
    /\ IF ~started
       THEN /\ spc' = [spc EXCEPT ![s] = "noop"]
            /\ wpc' = [wpc EXCEPT ![FreshWorker] = "get"]
            /\ workerTask' = FreshWorker
            /\ started' = TRUE
            /\ UNCHANGED <<queue, enqLog, sjoin>>
       ELSE /\ UNCHANGED <<wpc, workerTask>>
            /\ IF Full(queue)
               THEN /\ spc' = [spc EXCEPT ![s] = "put_wait"]
                    /\ UNCHANGED <<queue, enqLog, started, sjoin>>
               ELSE PutSentinel(s)
    /\ UNCHANGED <<config, direct, initLock, pc, fut, ret,
                   wcur, waited, elapsed, startLog, late>>

\* shutdown() is called (the calls are numbered in the order they are made): nothing
\* to do unless started; else put the poison pill, which
\* suspends on a full queue (no timeout)
Shutdown(s) ==
    /\ spc[s] = "idle"
    /\ \A r \in Shutdowns : r < s => spc[r] # "idle"
    /\ IF ~started
       THEN /\ spc' = [spc EXCEPT ![s] = "noop"]
            /\ UNCHANGED <<queue, enqLog, started, sjoin>>
       ELSE IF Full(queue)
       THEN /\ spc' = [spc EXCEPT ![s] = "put_wait"]
            /\ UNCHANGED <<queue, enqLog, started, sjoin>>
       ELSE PutSentinel(s)
    /\ UNCHANGED <<config, direct, workerTask, initLock, pc, fut, ret,
                   wpc, wcur, waited, elapsed, startLog, late>>

\* the suspended put of the poison pill resumes once a slot is free
ShutdownPutResume(s) ==
    /\ spc[s] = "put_wait"
    /\ ~Full(queue)
    /\ PutSentinel(s)
    /\ UNCHANGED <<config, direct, workerTask, initLock, pc, fut, ret,
                   wpc, wcur, waited, elapsed, startLog, late>>

\* worker task w is done: the shutdown() calls awaiting it resume, one right after
\* the other (a task's done-callbacks are scheduled together), each clearing the flag
ShutdownJoin(w) ==
    /\ wpc[w] = "exited"
    /\ \E s \in Shutdowns : spc[s] = "join" /\ sjoin[s] = w
    /\ spc' = [s \in Shutdowns |->
                 IF spc[s] = "join" /\ sjoin[s] = w THEN "returned" ELSE spc[s]]
    /\ started' = FALSE
    /\ UNCHANGED <<config, direct, queue, workerTask, initLock, pc, fut, ret,
                   wpc, wcur, sjoin, waited, elapsed, enqLog, startLog, late>>

\* --------------------------------------------------------- execute_sql
\* (mutant of ExecuteSql: the passthrough starts the worker like the async path)
ExecuteSqlStartsWorker(d) ==
    /\ dpc[d] = "idle"
    /\ \A e \in Directs : e < d => dpc[e] # "idle"
    /\ dpc' = [dpc EXCEPT ![d] = "exec"]
    /\ IF ~started
       THEN /\ wpc' = [wpc EXCEPT ![FreshWorker] = "get"]
            /\ workerTask' = FreshWorker
            /\ started' = TRUE
       ELSE UNCHANGED <<wpc, workerTask, started>>
    /\ UNCHANGED <<config, dret, queue, initLock, pc, fut, ret,
                   wcur, spc, sjoin, waited, elapsed, enqLog, startLog, late>>

\* (mutant of ExecuteSql: the passthrough waits while the worker is in the client)
ExecuteSqlSerialized(d) ==
    /\ dpc[d] = "idle"
    /\ \A e \in Directs : e < d => dpc[e] # "idle"
    /\ \A w \in Workers : wpc[w] # "exec"
    /\ dpc' = [dpc EXCEPT ![d] = "exec"]
    /\ UNCHANGED <<config, dret, queue, started, workerTask, initLock, pc, fut, ret,
                   wpc, wcur, spc, sjoin, waited, elapsed, enqLog, startLog, late>>

\* execute_sql(sql) is called (the calls are numbered in the order they are made):
\* the calling thread enters self._client.execute_sql(sql)
ExecuteSql(d) ==
    /\ dpc[d] = "idle"
    /\ \A e \in Directs : e < d => dpc[e] # "idle"
    /\ dpc' = [dpc EXCEPT ![d] = "exec"]
    /\ UNCHANGED <<config, dret, queue, started, workerTask, initLock, pc, fut, ret,
                   wpc, wcur, spc, sjoin, waited, elapsed, enqLog, startLog, late>>

\* the client's call is over: execute_sql returns its value or lets its exception through
ExecuteSqlReturn(d) ==
    /\ dpc[d] = "exec"
    /\ dret' = [dret EXCEPT ![d] = ClientExecute(dsql[d])]
    /\ dpc' = [dpc EXCEPT ![d] = IF ClientExecute(dsql[d])[1] = "result"
                                 THEN "returned" ELSE "raised"]
    /\ UNCHANGED <<config, queue, started, workerTask, initLock, pc, fut, ret,
                   wpc, wcur, spc, sjoin, waited, elapsed, enqLog, startLog, late>>

\* ---------------------------------------------------------------- Next
\* Any interleaving; a timeout may fire whenever a put is suspended and a blocking
\* call may take any time.
Next ==
    \/ \E c \in Callers : EnsureStartedFast(c)
    \/ \E c \in Callers : AcquireInitLock(c)
    \/ \E c \in Callers : EnsureStartedLocked(c)
    \/ \E c \in Callers : EnqueuePut(c)
    \/ \E c \in Callers : EnqueueResume(c)
    \/ \E c \in Callers : EnqueueTimeout(c)
    \/ \E c \in Callers : AwaitFuture(c)
    \/ \E w \in Workers : WorkerGet(w)
    \/ \E w \in Workers : WorkerResolve(w)
    \/ \E s \in Shutdowns : Shutdown(s)
    \/ \E s \in Shutdowns : ShutdownPutResume(s)
    \/ \E w \in Workers : ShutdownJoin(w)

Spec == Init /\ [][Next]_vars

\* Two overlapping shutdown() calls among OverlapCallers submissions.
InitOverlap ==
    /\ InitAdmin(OverlapCallers, NumShutdowns)
    /\ NoDirect
    /\ maxsize = OverlapQueueSize
    /\ enqueueTimeout = DefaultEnqueueTimeout
    /\ sql = [c \in Callers |-> FastSql]

\* A caller that runs without suspension: `async with` on the free lock, the
\* locked section, the put (it suspends itself if the queue is full).
Running == \E c \in Callers : pc[c] \in {"lock", "locked", "put"}

\* The event loop runs one coroutine at a time: a caller goes from its fast check
\* to its put (or to its wait on the full queue) before any other coroutine runs.
NextOverlap ==
    \/ \E c \in Callers : ~Running /\ EnsureStartedFast(c)
    \/ \E c \in Callers : AcquireInitLock(c)
    \/ \E c \in Callers : EnsureStartedLocked(c)
    \/ \E c \in Callers : EnqueuePut(c)
    \/ \E c \in Callers : ~Running /\ EnqueueResume(c)
    \/ \E c \in Callers : ~Running /\ EnqueueTimeout(c)
    \/ \E c \in Callers : ~Running /\ AwaitFuture(c)
    \/ \E w \in Workers : ~Running /\ WorkerGet(w)
    \/ \E w \in Workers : ~Running /\ WorkerResolve(w)
    \/ \E s \in Shutdowns : ~Running /\ Shutdown(s)
    \/ \E s \in Shutdowns : ~Running /\ ShutdownPutResume(s)
    \/ \E w \in Workers : ~Running /\ ShutdownJoin(w)

SpecOverlap == InitOverlap /\ [][NextOverlap]_vars

\* execute_sql calls, from the loop's thread or another one, beside the queued
\* traffic and a shutdown(): NumDirect direct calls, each FAST or FAIL.
InitDirect ==
    /\ InitAdmin(DirectCallers, 1)
    /\ maxsize = DirectQueueSize
    /\ enqueueTimeout = DefaultEnqueueTimeout
    /\ sql = [c \in Callers |-> FastSql]
    /\ dpc = [d \in Directs |-> "idle"]
    /\ dsql \in [Directs -> {FastSql, FailSql}]

NextDirect ==
    \/ Next
    \/ \E d \in Directs : ExecuteSql(d)
    \/ \E d \in Directs : ExecuteSqlReturn(d)

SpecDirect == InitDirect /\ [][NextDirect]_vars

\* Submissions whose argument is a query, the empty string or None, and one
\* shutdown().
InitPayload ==
    /\ InitAdmin(PayloadCallers, 1)
    /\ NoDirect
    /\ maxsize = PayloadQueueSize
    /\ enqueueTimeout = DefaultEnqueueTimeout
    /\ sql \in SqlChoices(PayloadCallers, {FastSql, EmptySql, None})

SpecPayload == InitPayload /\ [][Next]_vars

\* ------------------------------------------------------------ timed runs
\* The steps of the event loop that take no time
LoopStep ==
    \/ \E c \in Callers : EnsureStartedFast(c)
    \/ \E c \in Callers : AcquireInitLock(c)
    \/ \E c \in Callers : EnsureStartedLocked(c)
    \/ \E c \in Callers : EnqueuePut(c)
    \/ \E c \in Callers : EnqueueResume(c)
    \/ \E c \in Callers : AwaitFuture(c)
    \/ \E w \in Workers : WorkerGet(w)
    \/ \E s \in Shutdowns : ShutdownPutResume(s)
    \/ \E w \in Workers : ShutdownJoin(w)

\* (mutant of TimeoutDue: the put waits without a timeout)
TimeoutNever(c) == FALSE

\* (mutant of TimeoutDue: the loop is stalled while the client runs, no timer fires)
TimeoutStalled(c) ==
    pc[c] = "put_wait" /\ waited[c] >= enqueueTimeout /\ \A w \in Workers : wpc[w] # "exec"

\* wait_for's timer: the timeout fires when the put has been suspended for enqueue_timeout
TimeoutDue(c) == pc[c] = "put_wait" /\ waited[c] >= enqueueTimeout

\* time.sleep(delay) in the client: the blocking call may end
CallMayEnd(w) == wpc[w] = "exec" /\ elapsed[w] \in Delays(wcur[w][1])

\* time.sleep(delay) in the client: the blocking call cannot last longer
CallMustEnd(w) ==
    wpc[w] = "exec" /\ \A d \in Delays(wcur[w][1]) : elapsed[w] >= d

\* One tick passes.  The event loop runs what is ready before it sleeps, a timer
\* fires when it is due and a sleep ends when it is over.
Tick ==
    /\ ~ENABLED LoopStep
    /\ \A c \in Callers : ~TimeoutDue(c)
    /\ \A w \in Workers : ~CallMustEnd(w)
    /\ \/ \E c \in Callers : pc[c] = "put_wait"
       \/ \E w \in Workers : wpc[w] = "exec"
    /\ waited' = [c \in Callers |-> IF pc[c] = "put_wait" THEN waited[c] + 1 ELSE waited[c]]
    /\ elapsed' = [w \in Workers |-> IF wpc[w] = "exec" THEN elapsed[w] + 1 ELSE elapsed[w]]
    /\ UNCHANGED <<config, direct, queue, started, workerTask, initLock, pc, fut, ret,
                   wpc, wcur, spc, sjoin, enqLog, startLog, late>>

\* test_queue_backpressure: five run_query calls gathered on a fresh instance with
\* queue_size=2 and enqueue_timeout=1.0, the first one SLOW, the others FAST;
\* small_admin.shutdown() once they are all over.
InitBackpressure ==
    /\ InitAdmin(TestCallers, 1)
    /\ NoDirect
    /\ maxsize = TestQueueSize
    /\ enqueueTimeout = TestEnqueueTimeout
    /\ sql = [c \in Callers |-> IF c = 1 THEN SlowSql ELSE FastSql]

\* asyncio.gather has returned
GatherOver == \A c \in Callers : pc[c] \in {"returned", "raised", "unused"}

\* (the shutdown() of this run finds the queue empty: its put never suspends)
NextBackpressure ==
    \/ \E c \in Callers : EnsureStartedFast(c)
    \/ \E c \in Callers : AcquireInitLock(c)
    \/ \E c \in Callers : EnsureStartedLocked(c)
    \/ \E c \in Callers : EnqueuePut(c)
    \/ \E c \in Callers : EnqueueResume(c)
    \/ \E c \in Callers : TimeoutDue(c) /\ EnqueueTimeout(c)
    \/ \E c \in Callers : AwaitFuture(c)
    \/ \E w \in Workers : WorkerGet(w)
    \/ \E w \in Workers : CallMayEnd(w) /\ WorkerResolve(w)
    \/ \E s \in Shutdowns : GatherOver /\ Shutdown(s)
    \/ \E w \in Workers : ShutdownJoin(w)
    \/ Tick

SpecBackpressure == InitBackpressure /\ [][NextBackpressure]_vars

\* ============================================================ properties
\* the calls whose request was put on the queue, in the order of the puts
RECURSIVE Requests(_)
Requests(log) ==
    IF log = <<>> THEN <<>>
    ELSE IF Head(log)[1] = "req" THEN <<Head(log)[2]>> \o Requests(Tail(log))
    ELSE Requests(Tail(log))

IsPrefix(s, u) == Len(s) <= Len(u) /\ \A i \in 1..Len(s) : s[i] = u[i]

\* the request of call c was put on the queue
Inserted(c) == \E i \in 1..Len(enqLog) : enqLog[i] = <<"req", c>>

\* the request of call c was put on the queue before the poison pill of shutdown call s
InsertedBefore(c, s) ==
    \E i, j \in 1..Len(enqLog) : i < j /\ enqLog[i] = <<"req", c>> /\ enqLog[j] = <<"stop", s>>

\* a worker started the execution of the request of call c
Started(c) == \E i \in 1..Len(startLog) : startLog[i] = c

\* the future of call c holds a value or an error
Resolved(c) == fut[c][1] \in {"result", "exception"}

QueueFullError == <<"exception", <<"QueueFullError">>>>

Rejected(c) == ret[c] = QueueFullError

\* nothing can happen any more: every call has ended or is suspended for good
Quiescent == ~ENABLED Next

\* ---------------------------------------------------------------- C1
\* C1: at most one queue-driven call of the blocking client is in progress at any
\* instant, for any interleaving of submitters, worker and shutdown().
C1_MutualExclusion == Cardinality({w \in Workers : wpc[w] = "exec"}) <= 1

\* ---------------------------------------------------------------- C2
\* C2: the executions start in the order in which the requests were put on the
\* queue: the started calls are a prefix of the inserted ones, so that no request
\* is started before one inserted ahead of it, and none is skipped.
C2_Fifo == IsPrefix(startLog, Requests(enqLog))

\* two requests were started, and not in the order in which the calls were made
C2_Witness == Len(startLog) >= 2 /\ startLog[1] > startLog[2]

\* ---------------------------------------------------------------- C3
\* C3: every request put on the queue is eventually resolved; stated on the runs'
\* ends: when nothing can happen any more, no inserted request is still pending.
C3_EventuallyResolved == Quiescent => \A c \in Callers : Inserted(c) => Resolved(c)

\* ---------------------------------------------------------------- C4
\* C4: when the client fails on the request of call r, every other inserted request
\* is still executed and resolved with the outcome of its own execution; stated on
\* the runs' ends.
C4_ErrorIsolation ==
    Quiescent =>
        \A r \in Callers : fut[r][1] = "exception" =>
            \A c \in Callers \ {r} : Inserted(c) => fut[c] = ClientExecute(sql[c])

\* ---------------------------------------------------------------- C5
\* C5: a call that ended with QueueFullError never had its request put on the
\* queue, nor started by a worker, then or later, and the step that raises the error
\* leaves the queue as it was.
C5_RejectedNeverEnqueued ==
    \A c \in Callers : Rejected(c) =>
        /\ ~Inserted(c)
        /\ ~Started(c)
        /\ \A i \in 1..Len(queue) : queue[i][2] # c
        /\ fut[c] = <<"pending">>

C5_RejectionLeavesQueue ==
    [][\A c \in Callers : (~Rejected(c) /\ Rejected(c)') => queue' = queue /\ enqLog' = enqLog]_vars

C5_NoPartialEnqueue == []C5_RejectedNeverEnqueued /\ C5_RejectionLeavesQueue

\* a call was rejected, and requests went on after it
C5_Witness ==
    \E c \in Callers : Rejected(c) /\ \E d \in Callers : d # c /\ Started(d) /\ Len(queue) > 0

\* ---------------------------------------------------------------- C6
\* a worker is occupied by a SLOW request (8 s, longer than the enqueue timeout)
SlowBusy == \E w \in Workers : wpc[w] = "exec" /\ Has("SLOW", wcur[w][1])

\* C6, first part: while a SLOW request occupies the worker and the queue is full, a
\* call suspended in its put stays suspended, with the worker still occupied and the
\* queue still full, until it fails with QueueFullError: it is never accepted.
C6_WaitersRejected ==
    [][\A c \in Callers : (pc[c] = "put_wait" /\ SlowBusy /\ Full(queue)) =>
          \/ Rejected(c)' /\ pc'[c] = "raised"
          \/ pc'[c] = "put_wait" /\ SlowBusy' /\ Full(queue') /\ waited'[c] <= enqueueTimeout]_vars

\* C6, second part: with capacity 2 and five concurrent submissions, the SLOW one
\* being the request the worker executes first, exactly three are accepted and two
\* are rejected.
C6_ThreeAccepted ==
    (GatherOver /\ startLog # <<>> /\ Has("SLOW", sql[startLog[1]])) =>
        /\ Cardinality({c \in Callers : Inserted(c)}) = 3
        /\ Cardinality({c \in Callers : Rejected(c)}) = 2

\* C6: backpressure in test_queue_backpressure's run
C6_Backpressure == []C6_ThreeAccepted /\ C6_WaitersRejected

\* the five calls are over, the SLOW one was executed first and two were rejected
C6_Witness ==
    /\ GatherOver
    /\ startLog # <<>> /\ Has("SLOW", sql[startLog[1]])
    /\ Cardinality({c \in Callers : Rejected(c)}) = 2
    /\ \A c \in Callers : Inserted(c) => pc[c] = "returned"

\* ---------------------------------------------------------------- C7
\* C7: the queue never holds more items (requests and poison pills) than its capacity.
C7_QueueBounded == Len(queue) <= maxsize

\* the queue is full, holds a poison pill, and a submitter and a shutdown() wait for room
C7_Witness ==
    /\ Len(queue) = maxsize
    /\ \E i \in 1..Len(queue) : queue[i] = Sentinel
    /\ \E c \in Callers : pc[c] = "put_wait"
    /\ \E s \in Shutdowns : spc[s] = "put_wait"

\* ---------------------------------------------------------------- C8
\* C8: on a fresh instance (no shutdown() has returned from a started one) the
\* concurrent first callers create exactly one worker: never two, and one as soon as
\* a caller is past _ensure_started.
C8_SingleWorker ==
    ~SomeShutdownReturned =>
        /\ Cardinality({w \in Workers : wpc[w] # "none"}) <= 1
        /\ \A c \in Callers : pc[c] \notin {"idle", "unused", "lock", "locked"} =>
               Cardinality({w \in Workers : wpc[w] # "none"}) = 1

\* a caller that saw the flag unset holds the lock while another one has already
\* created the worker
C8_Witness ==
    /\ ~SomeShutdownReturned
    /\ \E c, d \in Callers :
         /\ pc[c] = "locked"
         /\ pc[d] \in {"put", "put_wait", "future"}
         /\ \E e \in Callers : e \notin {c, d} /\ pc[e] = "lock"
    /\ Cardinality({w \in Workers : wpc[w] # "none"}) = 1

\* ---------------------------------------------------------------- C9
\* C9: when a shutdown() of a started instance returns, every request put on the
\* queue before its poison pill is resolved and no worker is alive.
C9_GracefulDrain ==
    [][\A s \in Shutdowns : (spc[s] # "returned" /\ spc'[s] = "returned") =>
          /\ \A c \in Callers : InsertedBefore(c, s)' => Resolved(c)'
          /\ \A w \in Workers : wpc'[w] \notin {"get", "exec"}]_vars

\* ---------------------------------------------------------------- C10
\* C10: a call of execute_sql_async begun after a shutdown() of a started instance
\* has returned never has its request put on the queue nor executed.
C10_NoSubmitAfterShutdown ==
    \A c \in Callers : late[c] => ~Inserted(c) /\ ~Started(c)

\* --------------------------------------------------------------- C11
\* C11: a call of execute_sql_async made after a shutdown() of the started instance
\* has returned always ends with an explicit failure: it never returns a result, and
\* when nothing can happen any more it has raised, it is not left suspended.
C11_LateCallFailsFast ==
    \A c \in Callers : late[c] =>
        /\ pc[c] # "returned"
        /\ Quiescent => pc[c] = "raised"

\* --------------------------------------------------------------- C12
\* a worker task is alive: created and not exited
WorkerAlive == \E w \in Workers : wpc[w] \in {"get", "exec"}

\* a shutdown() has put its poison pill on the queue
PillEnqueued == \E i \in 1..Len(enqLog) : enqLog[i][1] = "stop"

\* the state of the worker lifecycle, as the instance's fields show it
Lifecycle ==
    IF \A w \in Workers : wpc[w] = "none" THEN "NotStarted"
    ELSE IF ~WorkerAlive THEN "Stopped"
    ELSE IF PillEnqueued THEN "Draining"
    ELSE "Running"

LifecycleRank(l) ==
    CASE l = "NotStarted" -> 0
      [] l = "Running" -> 1
      [] l = "Draining" -> 2
      [] l = "Stopped" -> 3

\* C12: the lifecycle only moves forward along NotStarted, Running, Draining,
\* Stopped: no step takes the instance back to an earlier state, and once Stopped
\* no worker runs again.
C12_MonotoneLifecycle ==
    [][LifecycleRank(Lifecycle') >= LifecycleRank(Lifecycle)]_vars

\* --------------------------------------------------------------- C13
\* a worker has taken a poison pill off the queue (the only way it exits)
PillDequeued == \E w \in Workers : wpc[w] = "exited"

\* C13: the poison pill is the last item any worker of the instance takes off the
\* queue: once a pill has been dequeued, no step dequeues a request or another pill.
C13_SentinelLast ==
    [][PillDequeued => ~(queue # <<>> /\ queue' = Tail(queue))]_vars

\* --------------------------------------------------------------- C14
\* C14: a call that returned a result returned the value the client gives for its
\* own sql, RESULT(sql), the value its future holds, and only after a worker had
\* started and finished the execution of its request.
C14_RoundTrip ==
    \A c \in Callers : pc[c] = "returned" =>
        /\ ret[c] = <<"result", <<"RESULT", sql[c]>>>>
        /\ fut[c] = ret[c]
        /\ Started(c)
        /\ \A w \in Workers : wpc[w] = "exec" => wcur[w][2] # c

\* one call returned its result and another one raised the client's error
C14_Witness ==
    \E c, d \in Callers :
        /\ pc[c] = "returned" /\ Has("FAST", sql[c])
        /\ pc[d] = "raised" /\ Has("FAIL", sql[d]) /\ ret[d] = ClientExecute(sql[d])

\* --------------------------------------------------------------- C15
\* C15: a future that holds a value or an error never changes again, and a pending
\* future is resolved only by the step of the worker that was executing its request.
C15_SingleAssignment ==
    [][\A c \in Callers :
          /\ Resolved(c) => fut'[c] = fut[c]
          /\ (fut[c] = <<"pending">> /\ fut'[c] # fut[c]) =>
                /\ Resolved(c)'
                /\ \E w \in Workers :
                      wpc[w] = "exec" /\ wcur[w][2] = c /\ wcur'[w] # wcur[w]]_vars

\* a future is resolved, its caller has returned, and a worker executes another request
C15_Witness ==
    \E c \in Callers :
        /\ Resolved(c) /\ pc[c] \in {"returned", "raised"}
        /\ \E w \in Workers : wpc[w] = "exec" /\ wcur[w][2] # c
        /\ \E d \in Callers : Rejected(d)

\* --------------------------------------------------------------- C16
\* C16: a worker leaves its loop only in the step that takes the poison pill off the
\* queue; when the client raises, the worker sets the error on that request's future
\* and goes on with the next item.
C16_ExitOnlyOnSentinel ==
    [][\A w \in Workers :
          /\ (wpc[w] # "exited" /\ wpc'[w] = "exited") =>
                queue # <<>> /\ Head(queue) = Sentinel /\ queue' = Tail(queue)
          /\ (wpc[w] = "exec" /\ Has("FAIL", wcur[w][1]) /\ wcur'[w] # wcur[w]) =>
                /\ fut'[wcur[w][2]] = ClientExecute(wcur[w][1])
                /\ wpc'[w] \in {"get", "exec", "exited"}
                /\ wpc'[w] = "get" <=> queue = <<>>
                /\ wpc'[w] = "exec" <=> (queue # <<>> /\ Head(queue) # Sentinel)]_vars

\* a request was started right after one on which the client had raised
C16_Witness ==
    \E i \in 1..Len(startLog) :
        /\ i < Len(startLog)
        /\ fut[startLog[i]][1] = "exception"
        /\ \A w \in Workers : wpc[w] # "exited"

\* --------------------------------------------------------------- C17
\* C17: shutdown() on an instance whose worker was never started returns at once and
\* changes nothing: no poison pill, no worker, queue, flag and worker handle as before.
C17_ShutdownNoopIfNeverStarted ==
    [][\A s \in Shutdowns :
          (spc[s] = "idle" /\ spc'[s] # "idle" /\ workerTask = NoRef) =>
              /\ spc'[s] = "noop"
              /\ queue' = queue /\ enqLog' = enqLog
              /\ started' = started /\ ~started'
              /\ workerTask' = workerTask /\ wpc' = wpc]_vars

\* a shutdown() was a no-op on the fresh instance, while a first caller is on its way
C17_Witness ==
    /\ \E s \in Shutdowns : spc[s] = "noop"
    /\ workerTask = NoRef
    /\ \E c \in Callers : pc[c] = "lock"

\* --------------------------------------------------------------- C18
\* C18: a request put on the queue is executed exactly once: it stays on the queue
\* until a worker starts it, no worker starts it twice, and when nothing can happen
\* any more every inserted request has been started.
C18_ExecutedExactlyOnce ==
    \A c \in Callers :
        /\ Cardinality({i \in 1..Len(startLog) : startLog[i] = c}) <= 1
        /\ Inserted(c) => Started(c) \/ \E i \in 1..Len(queue) : queue[i][2] = c
        /\ (Quiescent /\ Inserted(c)) => Started(c)

\* --------------------------------------------------------------- C19
\* C19: a step of execute_sql (its call, its return) leaves the queue, the put
\* history, the started flag, the worker handle, the worker tasks, the lock, the
\* async calls and every future as they were; its caller gets RESULT(sql), or the
\* client's error, which reaches nobody else.
C19_DirectBypassesQueue ==
    [][\A d \in Directs : dpc'[d] # dpc[d] =>
          /\ queue' = queue /\ enqLog' = enqLog /\ startLog' = startLog
          /\ started' = started /\ workerTask' = workerTask /\ initLock' = initLock
          /\ wpc' = wpc /\ wcur' = wcur
          /\ fut' = fut /\ pc' = pc /\ ret' = ret
          /\ \A e \in Directs \ {d} : dret'[e] = dret[e] /\ dpc'[e] = dpc[e]
          /\ dpc'[d] \in {"returned", "raised"} =>
                dret'[d] = IF Has("FAIL", dsql[d])
                           THEN <<"exception",
                                  <<"RuntimeError", "Simulated DB error for:", dsql[d]>>>>
                           ELSE <<"result", <<"RESULT", dsql[d]>>>>
          /\ dpc'[d] = "raised" <=> (dpc[d] = "exec" /\ Has("FAIL", dsql[d]))]_vars

\* a direct call raised the client's error while a request waits on the queue with
\* its future pending and no worker was ever created by the direct call
C19_Witness ==
    /\ \E d \in Directs : dpc[d] = "raised"
    /\ \E c \in Callers : pc[c] = "future" /\ fut[c] = <<"pending">>
                          /\ \E i \in 1..Len(queue) : queue[i][2] = c
    /\ \E e \in Directs : dpc[e] = "returned"

\* --------------------------------------------------------------- C20
\* a direct call is inside the client
DirectBusy == \E d \in Directs : dpc[d] = "exec"

\* a worker-driven call is inside the client
WorkerBusy == \E w \in Workers : wpc[w] = "exec"

\* C20: execute_sql is outside the serialization: the next direct call can enter the
\* client whatever the worker is doing, also while a worker-driven call is in
\* progress, and a worker can start a request while a direct call is in progress.
C20_DirectNotSerialized ==
    /\ \A d \in Directs :
          (dpc[d] = "idle" /\ \A e \in Directs : e < d => dpc[e] # "idle") =>
              ENABLED ExecuteSql(d)
    /\ \A w \in Workers :
          (wpc[w] = "get" /\ queue # <<>>) => ENABLED WorkerGet(w)

\* a direct call and a worker-driven call of the client are in progress at once
C20_Witness == DirectBusy /\ WorkerBusy

\* --------------------------------------------------------------- C21
\* C21: when the client fails on a queued request, the request's future holds an
\* ExecutionError that wraps the client's own error.
C21_ExecutionErrorWraps ==
    \A c \in Callers : fut[c][1] = "exception" =>
        fut[c][2] = <<"ExecutionError",
                      <<"RuntimeError", "Simulated DB error for:", sql[c]>>>>

\* --------------------------------------------------------------- C22
\* the request of call a was put on the queue before the request of call b
RequestBefore(a, b) ==
    \E i, j \in 1..Len(enqLog) : i < j /\ enqLog[i] = <<"req", a>> /\ enqLog[j] = <<"req", b>>

\* C22: futures are resolved in the order of insertion: in the step that resolves
\* the future of call b, every request inserted before b's is resolved already.
C22_ResolvedInOrder ==
    [][\A b \in Callers : (~Resolved(b) /\ Resolved(b)') =>
          \A a \in Callers : RequestBefore(a, b) => Resolved(a)]_vars

\* --------------------------------------------------------------- C23
\* a step puts a poison pill on the queue
PillPut == Len(enqLog') = Len(enqLog) + 1 /\ enqLog'[Len(enqLog')][1] = "stop"

\* C23: the poison pill goes through the bounded queue like a request: it is put
\* only when a slot is free, and a shutdown() that found the queue full is, like a
\* submission, not left waiting for a slot when nothing can happen any more.
C23_SentinelBackpressure ==
    /\ [](Quiescent => /\ \A c \in Callers : pc[c] # "put_wait"
                       /\ \A s \in Shutdowns : spc[s] # "put_wait")
    /\ [][PillPut => ~Full(queue) /\ queue' = Append(queue, Sentinel)]_vars

\* --------------------------------------------------------------- C24
\* C24: every step that writes the started flag or the worker handle is taken by
\* the holder of _init_lock, in its locked section.
C24_WritesUnderLock ==
    [][(started' # started \/ workerTask' # workerTask) =>
          \E c \in Callers : initLock = c /\ pc[c] = "locked" /\ pc'[c] # "locked"]_vars

\* --------------------------------------------------------------- C25
\* C25: every shutdown() call on a started instance returns; stated on the runs'
\* ends: when nothing can happen any more, no shutdown() waits for a slot or for
\* the worker.
C25_ShutdownReturns ==
    Quiescent => \A s \in Shutdowns : spc[s] \notin {"put_wait", "join"}

\* --------------------------------------------------------------- C27
\* C27: at most one worker task of the instance is alive at any time.
C27_OneWorkerAlive ==
    Cardinality({w \in Workers : wpc[w] \in {"get", "exec"}}) <= 1

\* --------------------------------------------------------------- C28
\* C28: the queue never holds more than one poison pill.
C28_OneSentinel ==
    Cardinality({i \in 1..Len(queue) : queue[i] = Sentinel}) <= 1

\* --------------------------------------------------------------- C29
\* a shutdown() is about to reset the flag: it awaits the task the handle refers to
ResetPending == \E s \in Shutdowns : spc[s] = "join" /\ sjoin[s] = workerTask

\* C29: the flag is never set while the worker of the handle has exited, unless a
\* shutdown() is about to reset it; a request is put on the queue only while a
\* worker is alive; and that request is started in the end.
C29_StartedMeansWorker ==
    /\ []((started /\ TaskDone(workerTask)) => ResetPending)
    /\ [](Quiescent => \A c \in Callers : Inserted(c) => Started(c))
    /\ [][\A c \in Callers : (~Inserted(c) /\ Inserted(c)') => WorkerAlive]_vars

\* --------------------------------------------------------------- C26
\* worker w takes the oldest entry off the queue in this step
Dequeues(w) ==
    /\ wpc[w] \in {"get", "exec"}
    /\ queue # <<>>
    /\ queue' = Tail(queue)
    /\ <<wpc[w], wcur[w]>>' # <<wpc[w], wcur[w]>>

\* C26: a worker stops only on an entry that shutdown() enqueued (the one without
\* a future); an entry of execute_sql_async, whatever its payload, empty or None,
\* is started when it is dequeued and does not stop the worker.
C26_OnlyShutdownStopsWorker ==
    [][\A w \in Workers : Dequeues(w) =>
          IF Head(queue)[2] = NoRef
          THEN wpc'[w] = "exited"
          ELSE wpc'[w] = "exec" /\ wcur'[w] = Head(queue)]_vars

\* --------------------------------------------------------------- C30
\* a call that has not finished its enqueue phase
Enqueuing(c) == pc[c] \in {"idle", "lock", "locked", "put", "put_wait"}

\* C30: while the worker waits for the client, the other calls finish their enqueue
\* phase on their own clock: a call suspended on the full queue is never kept past
\* enqueue_timeout, and once the client's call has lasted longer than
\* enqueue_timeout every call is past its enqueue phase (inserted or rejected).
C30_LoopNotStalled ==
    \A w \in Workers : wpc[w] = "exec" =>
        \A c \in Callers :
            /\ pc[c] = "put_wait" => waited[c] <= enqueueTimeout
            /\ elapsed[w] > enqueueTimeout => ~Enqueuing(c)

\* the SLOW call is still in progress, after more than enqueue_timeout; meanwhile a
\* call was rejected and another one's request was put on the queue and waits there
C30_Witness ==
    \E w \in Workers :
        /\ wpc[w] = "exec" /\ Has("SLOW", wcur[w][1])
        /\ elapsed[w] > enqueueTimeout /\ elapsed[w] < SlowDelay
        /\ \E c \in Callers : Rejected(c) /\ pc[c] = "raised"
        /\ \E c \in Callers : Inserted(c) /\ ~Started(c) /\ pc[c] = "future"
        /\ \A c \in Callers : ~Enqueuing(c)

\* --------------------------------------------------------------- C31
\* no execute_sql_async call has got past the locked section of _ensure_started
NoSubmitYet == \A c \in Callers : pc[c] \in {"unused", "idle", "lock", "locked"}

\* a worker task has been created
WorkerCreated == \E w \in Workers : wpc[w] # "none"

\* C31: lazy startup.  Until an execute_sql_async call has run the locked section
\* of _ensure_started there is no worker, whatever execute_sql and shutdown() calls
\* were made; a worker is created only in that section, by a call whose request is
\* not yet on the queue; and a call that is at its put, or past it, has a worker
\* created before.
C31_LazyStartup ==
    /\ [](NoSubmitYet => ~WorkerCreated /\ ~started /\ workerTask = NoRef)
    /\ [](\A c \in Callers : (pc[c] \in {"put", "put_wait"} \/ Inserted(c)) => WorkerCreated)
    /\ [][(\E w \in Workers : wpc[w] = "none" /\ wpc'[w] # "none") =>
            \E c \in Callers : /\ pc[c] = "locked" /\ pc'[c] = "put"
                               /\ ~Inserted(c)' /\ started' /\ wpc'[workerTask'] = "get"]_vars

\* an execute_sql call has returned and a shutdown() found nothing to stop, with no
\* worker yet; then the first submission created the worker and is about to put
C31_Witness ==
    /\ \E d \in Directs : dpc[d] = "returned"
    /\ \E s \in Shutdowns : spc[s] = "noop"
    /\ enqLog = <<>>
    /\ \E c \in Callers : pc[c] = "put" /\ workerTask # NoRef /\ wpc[workerTask] = "get"
    /\ Cardinality({w \in Workers : wpc[w] # "none"}) = 1

\* --------------------------------------------------------------- C32
\* call c leaves the position `at` of _ensure_started in this step
Leaves(c, at) == pc[c] = at /\ pc'[c] # at

\* C32: double-checked locking.  The lock is held exactly by a call in the locked
\* section.  A call that finds the flag set goes on to its put without touching the
\* lock; one that finds it unset goes for the lock, takes it when it is free, and
\* in the locked section creates one worker and sets flag and handle if the flag
\* is still unset, and otherwise changes neither flag, handle nor workers; it
\* releases the lock either way.
C32_DoubleChecked ==
    /\ [](\A c \in Callers : initLock = c <=> pc[c] = "locked")
    /\ [][\A c \in Callers :
            /\ Leaves(c, "idle") =>
                  /\ pc'[c] = (IF started THEN "put" ELSE "lock")
                  /\ UNCHANGED <<initLock, started, workerTask, wpc>>
            /\ Leaves(c, "lock") =>
                  /\ initLock = NoRef /\ initLock' = c /\ pc'[c] = "locked"
                  /\ UNCHANGED <<started, workerTask, wpc>>
            /\ Leaves(c, "locked") =>
                  /\ initLock' = NoRef /\ pc'[c] = "put"
                  /\ IF started
                     THEN UNCHANGED <<started, workerTask, wpc>>
                     ELSE /\ started' /\ workerTask' # NoRef
                          /\ wpc[workerTask'] = "none"
                          /\ wpc' = [wpc EXCEPT ![workerTask'] = "get"]]_vars

\* a call lost the race: it holds the lock and finds the flag set by the call that
\* created the only worker and is past _ensure_started
C32_Witness ==
    \E c, d \in Callers :
        /\ c # d
        /\ pc[c] = "locked" /\ initLock = c /\ started
        /\ pc[d] \in {"put", "put_wait", "future"}
        /\ Cardinality({w \in Workers : wpc[w] # "none"}) = 1
        /\ \A s \in Shutdowns : spc[s] = "idle"

\* --------------------------------------------------------------- C33
\* the queue entries that carry the future of call c
Entries(c) == {i \in 1..Len(queue) : queue[i][2] = c}

\* the executions started for call c
Executions(c) == {i \in 1..Len(startLog) : startLog[i] = c}

\* the workers that are executing the request of call c
Executing(c) == {w \in Workers : wpc[w] = "exec" /\ wcur[w] = <<sql[c], c>>}

\* C33: requests are never merged, identical payloads or not.  An accepted request
\* has an entry of its own on the queue until a worker starts it; it is started by
\* an execution of its own, at most once; its future is resolved only by that
\* execution, with the client's outcome for its own sql, in a step that resolves no
\* other future.
C33_NeverMerged ==
    /\ [](\A c \in Callers :
            /\ Cardinality(Entries(c)) = (IF Inserted(c) /\ ~Started(c) THEN 1 ELSE 0)
            /\ \A i \in Entries(c) : queue[i] = <<sql[c], c>>
            /\ Cardinality(Executions(c)) = (IF Started(c) THEN 1 ELSE 0)
            /\ Started(c) => Inserted(c)
            /\ Cardinality(Executing(c)) = (IF Started(c) /\ ~Resolved(c) THEN 1 ELSE 0)
            /\ Resolved(c) => fut[c] = ClientExecute(sql[c]))
    /\ [][\A c \in Callers : (~Resolved(c) /\ Resolved(c)') =>
            /\ Executing(c) # {} /\ Executing(c)' = {}
            /\ \A d \in Callers : d # c => fut'[d] = fut[d]]_vars

\* two calls with the same sql were both accepted, executed one after the other and
\* resolved, each future with the outcome for that sql
C33_Witness ==
    \E c, d \in Callers :
        /\ c # d /\ sql[c] = sql[d]
        /\ Executions(c) # {} /\ Executions(d) # {} /\ Executions(c) # Executions(d)
        /\ Resolved(c) /\ Resolved(d) /\ fut[c] = fut[d]

\* --------------------------------------------------------------- C34
\* the future of call c was created and is not resolved
Unresolved(c) == fut[c][1] = "pending"

\* C34: in test_queue_backpressure's run, where shutdown() is called once every
\* submission is over and nothing is called after it, shutdown() returns with the
\* queue empty, the worker exited, the flag unset, and no future that was created
\* left unresolved.
C34_CleanShutdown ==
    \A s \in Shutdowns : spc[s] = "returned" =>
        /\ queue = <<>>
        /\ TaskDone(workerTask) /\ \A w \in Workers : wpc[w] \in {"none", "exited"}
        /\ ~started
        /\ \A c \in Callers : ~Unresolved(c)


====
